---- MODULE Spec2Model ----
(***************************************************************************)
(* Match selection and response sanitization of the Super Connector bot:   *)
(* find_best_match (app/services/openai_service.py and mistral_service.py), *)
(* and its two callers, the /connect command of the bot                    *)
(* (app/services/discord_bot.py) and POST /api/discord/connect             *)
(* (app/routers/discord_commands.py).                                      *)
(*                                                                         *)
(* A Python str is modelled as a sequence of one-character strings, so     *)
(* that substring tests, case folding, word boundaries and the regular     *)
(* expressions of the code are computed character by character.            *)
(***************************************************************************)
EXTENDS Integers, Sequences, FiniteSets, TLC

(***************************************************************************)
(* Characters                                                              *)
(***************************************************************************)
UpperLetters ==
    <<"A","B","C","D","E","F","G","H","I","J","K","L","M",
      "N","O","P","Q","R","S","T","U","V","W","X","Y","Z">>
LowerLetters ==
    <<"a","b","c","d","e","f","g","h","i","j","k","l","m",
      "n","o","p","q","r","s","t","u","v","w","x","y","z">>
DigitChars == <<"0","1","2","3","4","5","6","7","8","9">>

Range(s) == {s[i] : i \in DOMAIN s}

UpperSet == Range(UpperLetters)
LowerSet == Range(LowerLetters)
DigitSet == Range(DigitChars)

\* str.lower() on one character
ToLower(c) ==
    IF c \in UpperSet
    THEN LowerLetters[CHOOSE i \in 1..26 : UpperLetters[i] = c]
    ELSE c

\* \d and str.isdigit() on one character
IsDigit(c) == c \in DigitSet

\* \w of the re module: letters, digits and the underscore
IsWordChar(c) == c \in UpperSet \cup LowerSet \cup DigitSet \cup {"_"}

\* whitespace of str.strip() and str.split()
IsSpace(c) == c \in {" ", "\n", "\t", "\r"}

(***************************************************************************)
(* str operations                                                          *)
(***************************************************************************)
\* str.lower()
Lower(t) == [i \in 1..Len(t) |-> ToLower(t[i])]

\* t[i:] starts with p                      (i is a 0-based offset)
StartsAt(t, i, p) ==
    /\ i + Len(p) <= Len(t)
    /\ \A j \in 1..Len(p) : t[i + j] = p[j]

\* the same, ignoring letter case (re.IGNORECASE on a literal)
StartsAtCI(t, i, p) ==
    /\ i + Len(p) <= Len(t)
    /\ \A j \in 1..Len(p) : ToLower(t[i + j]) = ToLower(p[j])

\* p in t
Contains(t, p) == \E i \in 0..(Len(t) - Len(p)) : StartsAt(t, i, p)

\* p.lower() in t.lower()
ContainsCI(t, p) == \E i \in 0..(Len(t) - Len(p)) : StartsAtCI(t, i, p)

\* number of leading characters of t[i:] that satisfy \d
RECURSIVE DigitRun(_, _)
DigitRun(t, i) ==
    IF i < Len(t) /\ IsDigit(t[i + 1]) THEN 1 + DigitRun(t, i + 1) ELSE 0

\* str.strip()
RECURSIVE LStrip(_)
LStrip(t) == IF t # <<>> /\ IsSpace(Head(t)) THEN LStrip(Tail(t)) ELSE t
RECURSIVE RStrip(_)
RStrip(t) ==
    IF t # <<>> /\ IsSpace(t[Len(t)]) THEN RStrip(SubSeq(t, 1, Len(t) - 1)) ELSE t
Strip(t) == RStrip(LStrip(t))

\* length of the leading run of non-whitespace characters of t[i:]
RECURSIVE WordRun(_, _)
WordRun(t, i) ==
    IF i < Len(t) /\ ~IsSpace(t[i + 1]) THEN 1 + WordRun(t, i + 1) ELSE 0

\* t.split()[0] if t else ""
FirstWord(t) ==
    LET s == LStrip(t) IN SubSeq(s, 1, WordRun(s, 0))

\* str.isdigit(): not empty and every character a digit
IsDigitStr(w) == w # <<>> /\ \A i \in 1..Len(w) : IsDigit(w[i])

\* int(w) for a string of decimal digits
DigitValue(c) == (CHOOSE i \in 1..10 : DigitChars[i] = c) - 1
RECURSIVE ParseInt(_)
ParseInt(w) ==
    IF w = <<>> THEN 0
    ELSE 10 * ParseInt(SubSeq(w, 1, Len(w) - 1)) + DigitValue(w[Len(w)])

\* str(n) for n >= 0
RECURSIVE IntToStr(_)
IntToStr(n) ==
    IF n < 10 THEN <<DigitChars[n + 1]>>
    ELSE IntToStr(n \div 10) \o <<DigitChars[(n % 10) + 1]>>

\* 'Candidate '
MarkerPrefix ==
    <<"C","a","n","d","i","d","a","t","e"," ">>
\* 'a candidate'
ACandidate ==
    <<"a"," ","c","a","n","d","i","d","a","t","e">>
\* 'network'
Network ==
    <<"n","e","t","w","o","r","k">>
\* ' is the best match because '
BestMatchBecause ==
    <<" ","i","s"," ","t","h","e"," ","b","e","s","t"," ","m","a","t","c","h"," ","b","e","c","a",
    "u","s","e"," ">>

(***************************************************************************)
(* The regular expressions of the code                                     *)
(***************************************************************************)
\* 'database'
TermDatabase ==
    <<"d","a","t","a","b","a","s","e">>
\* 'file'
TermFile ==
    <<"f","i","l","e">>
\* 'stored'
TermStored ==
    <<"s","t","o","r","e","d">>
\* 'record'
TermRecord ==
    <<"r","e","c","o","r","d">>
\* 'system'
TermSystem ==
    <<"s","y","s","t","e","m">>

\* (?i)(database|file|stored|record|system) at offset i: the alternatives are
\* tried in their order
StorageTermMatch(t, i) ==
    IF StartsAtCI(t, i, TermDatabase) THEN Len(TermDatabase)
    ELSE IF StartsAtCI(t, i, TermFile) THEN Len(TermFile)
    ELSE IF StartsAtCI(t, i, TermStored) THEN Len(TermStored)
    ELSE IF StartsAtCI(t, i, TermRecord) THEN Len(TermRecord)
    ELSE IF StartsAtCI(t, i, TermSystem) THEN Len(TermSystem)
    ELSE 0

\* Candidate \d+ at offset i
MarkerMatch(t, i) ==
    IF StartsAt(t, i, MarkerPrefix) /\ DigitRun(t, i + Len(MarkerPrefix)) > 0
    THEN Len(MarkerPrefix) + DigitRun(t, i + Len(MarkerPrefix))
    ELSE 0

\* \b at offset i: exactly one of the characters before and after is a \w
WordBoundary(t, i) ==
    (i > 0 /\ IsWordChar(t[i])) # (i < Len(t) /\ IsWordChar(t[i + 1]))

\* (?i)\b<re.escape(name)>\b at offset i
NameMatch(t, i, name) ==
    IF WordBoundary(t, i) /\ StartsAtCI(t, i, name) /\ WordBoundary(t, i + Len(name))
    THEN Len(name)
    ELSE 0

(***************************************************************************)
(* The patterns of the code.  MatchAt(pat, t, i) is the length of the      *)
(* match of the pattern at offset i of t, 0 when it does not match there   *)
(* (no pattern of the code matches the empty string).                      *)
(***************************************************************************)
PatStorageTerms == [kind |-> "terms", arg |-> <<>>]
PatMarker == [kind |-> "marker", arg |-> <<>>]
PatName(name) == [kind |-> "name", arg |-> name]
PatLiteral(old) == [kind |-> "literal", arg |-> old]

MatchAt(pat, t, i) ==
    CASE pat.kind = "terms" -> StorageTermMatch(t, i)
      [] pat.kind = "marker" -> MarkerMatch(t, i)
      [] pat.kind = "name" -> NameMatch(t, i, pat.arg)
      [] pat.kind = "literal" -> IF StartsAt(t, i, pat.arg) THEN Len(pat.arg) ELSE 0

\* re.sub(pattern, repl, t) and str.replace: matches are taken leftmost first
\* and do not overlap
RECURSIVE ReSubFrom(_, _, _, _)
ReSubFrom(t, pat, repl, i) ==
    LET starts == {j \in i..(Len(t) - 1) : MatchAt(pat, t, j) > 0} IN
    IF starts = {} THEN SubSeq(t, i + 1, Len(t))
    ELSE LET j == CHOOSE k \in starts : \A h \in starts : k <= h IN
         SubSeq(t, i + 1, j) \o repl \o ReSubFrom(t, pat, repl, j + MatchAt(pat, t, j))
ReSub(t, pat, repl) == ReSubFrom(t, pat, repl, 0)

\* re.search(pattern, t) is not None
ReFound(t, pat) == \E i \in 0..(Len(t) - 1) : MatchAt(pat, t, i) > 0

\* re.sub(r'(?i)(database|file|stored|record|system)', 'network', t)
RemoveStorageTerms(t) == ReSub(t, PatStorageTerms, Network)

\* re.sub(r'Candidate \d+', repl, t)
ReplaceMarkers(t, repl) == ReSub(t, PatMarker, repl)

\* re.sub(r'(?i)\b' + re.escape(name) + r'\b', "a candidate", t)
RedactName(t, name) ==
    ReSub(t, PatName(name), ACandidate)

\* the loop over the candidates: names longer than 2 characters are redacted,
\* one after the other, in list order
RECURSIVE RedactNames(_, _)
RedactNames(t, cands) ==
    IF cands = <<>> THEN t
    ELSE LET name == Head(cands).name
             u == IF Len(name) > 2 THEN RedactName(t, name) ELSE t
         IN RedactNames(u, Tail(cands))

\* Candidate \d+ is the best match because (.*) with re.IGNORECASE at offset i:
\* the offset at which group 1 starts, 0 when there is no match at i
TemplateMatch(t, i) ==
    LET d == DigitRun(t, i + Len(MarkerPrefix)) IN
    IF /\ StartsAtCI(t, i, MarkerPrefix)
       /\ d > 0
       /\ StartsAtCI(t, i + Len(MarkerPrefix) + d, BestMatchBecause)
    THEN i + Len(MarkerPrefix) + d + Len(BestMatchBecause)
    ELSE 0

\* (.*): up to the end of the line
LineRun(t, i) ==
    LET ends == {j \in i..Len(t) : j = Len(t) \/ t[j + 1] = "\n"} IN
    (CHOOSE j \in ends : \A h \in ends : j <= h) - i

\* re.search(r'Candidate \d+ is the best match because (.*)', t, re.IGNORECASE):
\* [found, group1] for the leftmost match
TemplateSearch(t) ==
    LET hits == {i \in 0..(Len(t) - 1) : TemplateMatch(t, i) > 0} IN
    IF hits = {} THEN [found |-> FALSE, group1 |-> <<>>]
    ELSE LET i == CHOOSE k \in hits : \A h \in hits : k <= h
             g == TemplateMatch(t, i)
         IN [found |-> TRUE, group1 |-> SubSeq(t, g + 1, g + LineRun(t, g))]

\* str.replace(old, new)
StrReplace(t, old, new) ==
    ReSub(t, PatLiteral(old), new)

\* f"Candidate {k}"
Marker(k) == MarkerPrefix \o IntToStr(k)

(***************************************************************************)
(* openai_service.find_best_match                                          *)
(***************************************************************************)
\* 'no good match found'
Indicator01 ==
    <<"n","o"," ","g","o","o","d"," ","m","a","t","c","h"," ","f","o","u","n","d">>
\* no_match_indicators, in the order of the list
no_match_indicators ==
    <<Indicator01,
      <<"n","o"," ","s","u","i","t","a","b","l","e"," ","c","a","n","d","i","d","a","t","e","s">>,
      <<"n","o","n","e"," ","o","f"," ","t","h","e"," ","c","a","n","d","i","d","a","t","e","s"," ","h","a","v","e">>,
      <<"n","o"," ","a","p","p","r","o","p","r","i","a","t","e"," ","m","a","t","c","h">>,
      <<"n","o","t"," ","a"," ","g","o","o","d"," ","m","a","t","c","h">>,
      <<"n","o"," ","m","a","t","c","h"," ","f","o","u","n","d">>,
      <<"n","o"," ","c","a","n","d","i","d","a","t","e"," ","m","a","t","c","h","e","s">>,
      <<"n","o"," ","r","e","l","e","v","a","n","t"," ","m","a","t","c","h">>,
      <<"n","o"," ","c","a","n","d","i","d","a","t","e"," ","h","a","s"," ","t","h","e">>,
      <<"n","o"," ","c","a","n","d","i","d","a","t","e"," ","p","o","s","s","e","s","s","e","s">>,
      <<"n","o"," ","c","a","n","d","i","d","a","t","e"," ","w","i","t","h">>,
      <<"c","o","u","l","d","n","'","t"," ","f","i","n","d"," ","a"," ","m","a","t","c","h">>,
      <<"c","o","u","l","d"," ","n","o","t"," ","f","i","n","d"," ","a"," ","m","a","t","c","h">>,
      <<"u","n","a","b","l","e"," ","t","o"," ","f","i","n","d"," ","a"," ","m","a","t","c","h">>>>

\* 'No candidates available in the database.'
NoCandidatesText ==
    <<"N","o"," ","c","a","n","d","i","d","a","t","e","s"," ","a","v","a","i","l","a","b","l","e",
    " ","i","n"," ","t","h","e"," ","d","a","t","a","b","a","s","e",".">>
\* ' is the best match available in our network.'
OnlyCandidateSuffix ==
    <<" ","i","s"," ","t","h","e"," ","b","e","s","t"," ","m","a","t","c","h"," ","a","v","a","i",
    "l","a","b","l","e"," ","i","n"," ","o","u","r"," ","n","e","t","w","o","r","k",".">>
\* ' is the best match based on their professional experience and skills.'
BareIndexSuffix ==
    <<" ","i","s"," ","t","h","e"," ","b","e","s","t"," ","m","a","t","c","h"," ","b","a","s","e",
    "d"," ","o","n"," ","t","h","e","i","r"," ","p","r","o","f","e","s","s","i","o","n","a","l"," ",
    "e","x","p","e","r","i","e","n","c","e"," ","a","n","d"," ","s","k","i","l","l","s",".">>
\* "No good match found. The candidates in our network don't appear to have the specific experience or skills requested."
AssumeNoMatchText ==
    <<"N","o"," ","g","o","o","d"," ","m","a","t","c","h"," ","f","o","u","n","d","."," ","T","h",
    "e"," ","c","a","n","d","i","d","a","t","e","s"," ","i","n"," ","o","u","r"," ","n","e","t","w",
    "o","r","k"," ","d","o","n","'","t"," ","a","p","p","e","a","r"," ","t","o"," ","h","a","v","e",
    " ","t","h","e"," ","s","p","e","c","i","f","i","c"," ","e","x","p","e","r","i","e","n","c","e",
    " ","o","r"," ","s","k","i","l","l","s"," ","r","e","q","u","e","s","t","e","d",".">>
\* 'Error processing match: '
ErrorPrefix ==
    <<"E","r","r","o","r"," ","p","r","o","c","e","s","s","i","n","g"," ","m","a","t","c","h",":",
    " ">>
\* '. Please try again with different criteria.'
ErrorSuffix ==
    <<"."," ","P","l","e","a","s","e"," ","t","r","y"," ","a","g","a","i","n"," ","w","i","t","h",
    " ","d","i","f","f","e","r","e","n","t"," ","c","r","i","t","e","r","i","a",".">>

(***************************************************************************)
(* Users (app/models/user.py) and the inputs of the model                  *)
(***************************************************************************)
\* None, where the code returns no user
NoUser == [id |-> 0, name |-> <<>>, phone |-> <<>>, resume_text |-> <<>>]

User(id, name, phone, resume_text) ==
    [id |-> id, name |-> name, phone |-> phone, resume_text |-> resume_text]

\* '5550000001'
Phone1 ==
    <<"5","5","5","0","0","0","0","0","0","1">>
\* 'chef'
ResumeChef ==
    <<"c","h","e","f">>
\* 'vet'
ResumeVet ==
    <<"v","e","t">>

\* the rows of the users table, in the order get_all_users returns them; the
\* first user has uploaded no resume, the fourth has a name of two characters
Roster ==
    <<User(1, <<"A","n","a">>, Phone1, <<>>),
      User(2, <<"B","e","t","o">>, Phone1, ResumeChef),
      User(3, <<"D","o","n">>, Phone1, ResumeVet),
      User(4, <<"A","l">>, Phone1, ResumeChef),
      User(5, <<"E","v","a">>, Phone1, ResumeVet),
      User(6, <<"F","l","o">>, Phone1, ResumeChef),
      User(7, <<"G","u","s">>, Phone1, ResumeVet),
      User(8, <<"H","a","l">>, Phone1, ResumeChef),
      User(9, <<"I","a","n">>, Phone1, ResumeVet),
      User(10, <<"J","o","y">>, Phone1, ResumeChef)>>

\* the users table holds the first n rows, for n up to MaxUsers, or all ten
\* rows: with ten candidates the markers "Candidate 1" and "Candidate 10" exist
MaxUsers == 3
Tables == {SubSeq(Roster, 1, n) : n \in (0..MaxUsers) \cup {Len(Roster)}}

\* 'cook'
ReqCook ==
    <<"c","o","o","k">>
\* 'Beto'
ReqBeto ==
    <<"B","e","t","o">>

\* request texts (looking_for)
RequestTexts == {ReqCook, ReqBeto}

\* 'Candidate 1'
FragCandidate1 ==
    <<"C","a","n","d","i","d","a","t","e"," ","1">>
\* 'Candidate 2 is the best match because '
FragCandidate2Because ==
    <<"C","a","n","d","i","d","a","t","e"," ","2"," ","i","s"," ","t","h","e"," ","b","e","s","t",
    " ","m","a","t","c","h"," ","b","e","c","a","u","s","e"," ">>
\* '0'
FragZero ==
    <<"0">>
\* '2'
FragTwo ==
    <<"2">>
\* 'No Good Match Found'
FragNoGoodMatch ==
    <<"N","o"," ","G","o","o","d"," ","M","a","t","c","h"," ","F","o","u","n","d">>
\* ' Beto'
FragBeto ==
    <<" ","B","e","t","o">>
\* 'file'
FragFile ==
    <<"f","i","l","e">>

\* ' and Candidate 2'
FragAndCandidate2 ==
    <<" ","a","n","d"," ","C","a","n","d","i","d","a","t","e"," ","2">>

\* the completion service answers with any text made of at most MaxFrags of
\* these fragments
Fragments ==
    {FragCandidate1, FragCandidate2Because, FragZero, FragTwo, FragNoGoodMatch,
     FragBeto, FragFile, FragAndCandidate2}
MaxFrags == 2
RECURSIVE Concats(_)
Concats(k) ==
    IF k = 0 THEN {<<>>}
    ELSE LET prev == Concats(k - 1) IN prev \cup {p \o f : p \in prev, f \in Fragments}
Responses == Concats(MaxFrags)

\* 'Connection error.'
ErrConnection ==
    <<"C","o","n","n","e","c","t","i","o","n"," ","e","r","r","o","r",".">>
\* 'Request timed out.'
ErrTimeout ==
    <<"R","e","q","u","e","s","t"," ","t","i","m","e","d"," ","o","u","t",".">>
\* 'Error code: 500 - '
ErrStatusPrefix ==
    <<"E","r","r","o","r"," ","c","o","d","e",":"," ","5","0","0"," ","-"," ">>
\* "'NoneType' object has no attribute 'strip'"
ErrNoneStrip ==
    <<"'","N","o","n","e","T","y","p","e","'"," ","o","b","j","e","c","t"," ","h","a","s"," ","n",
    "o"," ","a","t","t","r","i","b","u","t","e"," ","'","s","t","r","i","p","'">>

\* str(e) of what the completion call raises: a connection error, a timeout,
\* or a non-success status, whose message carries the body the service sent
ErrorBodies == Concats(1)
ErrorMessages ==
    {ErrConnection, ErrTimeout} \cup {ErrStatusPrefix \o b : b \in ErrorBodies}


(***************************************************************************)
(* openai_service.find_best_match, as operators                            *)
(***************************************************************************)
\* what find_best_match gives its caller: a pair (user, explanation), or an
\* exception that leaves the function
Decision(u, e) == [raised |-> FALSE, user |-> u, explanation |-> e]
Raised(msg) == [raised |-> TRUE, user |-> NoUser, explanation |-> msg]
NoDecision == [raised |-> FALSE, user |-> NoUser, explanation |-> <<>>]

\* variant: the guard on the empty list is missing
ReturnsEarlySingleOnly(cands) == Len(cands) = 1

\* variant: the guard on the single candidate is missing
ReturnsEarlyEmptyOnly(cands) == cands = <<>>

\* the two returns before the prompt is built: an empty list, a single candidate
ReturnsEarly(cands) == Len(cands) <= 1
EarlyDecision(cands) ==
    IF cands = <<>> THEN Decision(NoUser, NoCandidatesText)
    ELSE Decision(cands[1], cands[1].name \o OnlyCandidateSuffix)

\* any(indicator.lower() in ai_response.lower() for indicator in no_match_indicators)
NoMatchIndicated(resp) ==
    LET low == Lower(resp) IN
    \E k \in DOMAIN no_match_indicators : Contains(low, Lower(no_match_indicators[k]))

\* the explanation of the no-match branch: storage terms, then names, then markers
NoMatchExplanation(cands, resp) ==
    ReplaceMarkers(RedactNames(RemoveStorageTerms(resp), cands), ACandidate)

\* variant: the marker is built from the 0-based index, f"Candidate {i}"
SelectedIndexZeroBased(cands, resp) ==
    LET hits == {i \in 1..Len(cands) : Contains(resp, Marker(i - 1))} IN
    IF hits = {} THEN 0 ELSE CHOOSE i \in hits : \A h \in hits : i <= h

\* the offset of the first occurrence of p in t
FirstPos(t, p) ==
    CHOOSE i \in 0..Len(t) : StartsAt(t, i, p) /\ \A j \in 0..(i - 1) : ~StartsAt(t, j, p)

\* variant: the marker that comes first in the text selects the candidate
SelectedIndexByPosition(cands, resp) ==
    LET hits == {i \in 1..Len(cands) : Contains(resp, Marker(i))} IN
    IF hits = {} THEN 0
    ELSE CHOOSE i \in hits : \A h \in hits :
            \/ FirstPos(resp, Marker(i)) < FirstPos(resp, Marker(h))
            \/ FirstPos(resp, Marker(i)) = FirstPos(resp, Marker(h)) /\ i <= h

\* the loop over enumerate(candidates): the first i with "Candidate {i+1}" in
\* the response; 0 when the loop ends without a break
SelectedIndex(cands, resp) ==
    LET hits == {i \in 1..Len(cands) : Contains(resp, Marker(i))} IN
    IF hits = {} THEN 0 ELSE CHOOSE i \in hits : \A h \in hits : i <= h

\* the explanation of a selected candidate
MatchExplanation(user, resp) ==
    LET m == TemplateSearch(resp)
        e == IF m.found THEN user.name \o BestMatchBecause \o m.group1 ELSE resp
    IN RemoveStorageTerms(e)

\* variant: the number is used as a 0-based index, candidates[int(first_word)]
BareIndexZeroBased(cands, resp) ==
    LET w == FirstWord(resp) IN
    IF IsDigitStr(w) /\ 1 <= ParseInt(w) /\ ParseInt(w) < Len(cands)
    THEN ParseInt(w) + 1
    ELSE 0

\* the response starts with a number: first_word.isdigit() and
\* 1 <= int(first_word) <= len(candidates); 0 when it does not
BareIndex(cands, resp) ==
    LET w == FirstWord(resp) IN
    IF IsDigitStr(w) /\ 1 <= ParseInt(w) /\ ParseInt(w) <= Len(cands)
    THEN ParseInt(w)
    ELSE 0

\* variant: the markers are tested before the no-match phrases
ParseResponseMarkersFirst(cands, resp) ==
    IF SelectedIndex(cands, resp) # 0
    THEN LET c == cands[SelectedIndex(cands, resp)] IN
         Decision(c, MatchExplanation(c, resp))
    ELSE IF NoMatchIndicated(resp)
    THEN Decision(NoUser, NoMatchExplanation(cands, resp))
    ELSE IF BareIndex(cands, resp) # 0
    THEN LET c == cands[BareIndex(cands, resp)] IN
         Decision(c, c.name \o BareIndexSuffix)
    ELSE Decision(NoUser, AssumeNoMatchText)

\* variant: unparseable output falls back to the first candidate
ParseResponseDefaultFirst(cands, resp) ==
    IF NoMatchIndicated(resp)
    THEN Decision(NoUser, NoMatchExplanation(cands, resp))
    ELSE IF SelectedIndex(cands, resp) # 0
    THEN LET c == cands[SelectedIndex(cands, resp)] IN
         Decision(c, MatchExplanation(c, resp))
    ELSE IF BareIndex(cands, resp) # 0
    THEN LET c == cands[BareIndex(cands, resp)] IN
         Decision(c, c.name \o BareIndexSuffix)
    ELSE Decision(cands[1], cands[1].name \o BareIndexSuffix)

\* variant: the marker's number indexes the whole users table, not the list
\* that was passed in
ParseResponseIndexesTable(cands, resp) ==
    IF NoMatchIndicated(resp)
    THEN Decision(NoUser, NoMatchExplanation(cands, resp))
    ELSE IF SelectedIndex(cands, resp) # 0
    THEN LET c == Roster[SelectedIndex(cands, resp)] IN
         Decision(c, MatchExplanation(c, resp))
    ELSE IF BareIndex(cands, resp) # 0
    THEN LET c == cands[BareIndex(cands, resp)] IN
         Decision(c, c.name \o BareIndexSuffix)
    ELSE Decision(NoUser, AssumeNoMatchText)

\* the body of the try block after the completion has arrived
ParseResponse(cands, resp) ==
    IF NoMatchIndicated(resp)
    THEN Decision(NoUser, NoMatchExplanation(cands, resp))
    ELSE IF SelectedIndex(cands, resp) # 0
    THEN LET c == cands[SelectedIndex(cands, resp)] IN
         Decision(c, MatchExplanation(c, resp))
    ELSE IF BareIndex(cands, resp) # 0
    THEN LET c == cands[BareIndex(cands, resp)] IN
         Decision(c, c.name \o BareIndexSuffix)
    ELSE Decision(NoUser, AssumeNoMatchText)

\* variant: no except clause, the exception leaves find_best_match
OnExceptionPropagates(cands, msg) == Raised(msg)

\* except Exception as e
OnException(cands, msg) == Decision(NoUser, ErrorPrefix \o msg \o ErrorSuffix)

(***************************************************************************)
(* mistral_service.find_best_match, as operators.  Its two early returns   *)
(* are those of openai_service, word for word.                             *)
(***************************************************************************)
\* no_match_indicators of mistral_service
mistral_no_match_indicators ==
    <<<<"n","o"," ","g","o","o","d"," ","m","a","t","c","h"," ","f","o","u","n","d">>,
      <<"n","o"," ","s","u","i","t","a","b","l","e"," ","c","a","n","d","i","d","a","t","e","s">>,
      <<"n","o","n","e"," ","o","f"," ","t","h","e"," ","c","a","n","d","i","d","a","t","e","s"," ","h","a","v","e"," ","a","n","y">>>>

\* "While there isn't a perfect match, this person might have some relevant skills or experience that could be valuable. I recommend reaching out to explore potential synergies."
MistralLenientText ==
    <<"W","h","i","l","e"," ","t","h","e","r","e"," ","i","s","n","'","t"," ","a"," ","p","e","r",
    "f","e","c","t"," ","m","a","t","c","h",","," ","t","h","i","s"," ","p","e","r","s","o","n"," ",
    "m","i","g","h","t"," ","h","a","v","e"," ","s","o","m","e"," ","r","e","l","e","v","a","n","t",
    " ","s","k","i","l","l","s"," ","o","r"," ","e","x","p","e","r","i","e","n","c","e"," ","t","h",
    "a","t"," ","c","o","u","l","d"," ","b","e"," ","v","a","l","u","a","b","l","e","."," ","I"," ",
    "r","e","c","o","m","m","e","n","d"," ","r","e","a","c","h","i","n","g"," ","o","u","t"," ","t",
    "o"," ","e","x","p","l","o","r","e"," ","p","o","t","e","n","t","i","a","l"," ","s","y","n","e",
    "r","g","i","e","s",".">>
\* ' has experience that could be relevant to your needs. While not a perfect match, they might offer valuable insights or connections.'
MistralLastResortSuffix ==
    <<" ","h","a","s"," ","e","x","p","e","r","i","e","n","c","e"," ","t","h","a","t"," ","c","o",
    "u","l","d"," ","b","e"," ","r","e","l","e","v","a","n","t"," ","t","o"," ","y","o","u","r"," ",
    "n","e","e","d","s","."," ","W","h","i","l","e"," ","n","o","t"," ","a"," ","p","e","r","f","e",
    "c","t"," ","m","a","t","c","h",","," ","t","h","e","y"," ","m","i","g","h","t"," ","o","f","f",
    "e","r"," ","v","a","l","u","a","b","l","e"," ","i","n","s","i","g","h","t","s"," ","o","r"," ",
    "c","o","n","n","e","c","t","i","o","n","s",".">>
\* 'I found '
MistralFoundPrefix ==
    <<"I"," ","f","o","u","n","d"," ">>
\* ' who might be able to help with your request. Please connect with them to explore potential synergies.'
MistralFoundSuffix ==
    <<" ","w","h","o"," ","m","i","g","h","t"," ","b","e"," ","a","b","l","e"," ","t","o"," ","h",
    "e","l","p"," ","w","i","t","h"," ","y","o","u","r"," ","r","e","q","u","e","s","t","."," ","P",
    "l","e","a","s","e"," ","c","o","n","n","e","c","t"," ","w","i","t","h"," ","t","h","e","m"," ",
    "t","o"," ","e","x","p","l","o","r","e"," ","p","o","t","e","n","t","i","a","l"," ","s","y","n",
    "e","r","g","i","e","s",".">>
\* 'Error processing match and no candidates available. Please try again later.'
MistralNoCandidatesError ==
    <<"E","r","r","o","r"," ","p","r","o","c","e","s","s","i","n","g"," ","m","a","t","c","h"," ",
    "a","n","d"," ","n","o"," ","c","a","n","d","i","d","a","t","e","s"," ","a","v","a","i","l","a",
    "b","l","e","."," ","P","l","e","a","s","e"," ","t","r","y"," ","a","g","a","i","n"," ","l","a",
    "t","e","r",".">>

MistralNoMatchIndicated(resp) ==
    LET low == Lower(resp) IN
    \E k \in DOMAIN mistral_no_match_indicators :
        Contains(low, Lower(mistral_no_match_indicators[k]))

\* the body of the try block after the completion has arrived
MistralParseResponse(cands, resp) ==
    IF MistralNoMatchIndicated(resp)
    THEN Decision(cands[1], MistralLenientText)
    ELSE IF SelectedIndex(cands, resp) # 0
    THEN LET c == cands[SelectedIndex(cands, resp)] IN
         Decision(c, MatchExplanation(c, resp))
    ELSE IF BareIndex(cands, resp) # 0
    THEN LET c == cands[BareIndex(cands, resp)] IN
         Decision(c, c.name \o BareIndexSuffix)
    ELSE Decision(cands[1], cands[1].name \o MistralLastResortSuffix)

\* except Exception as e
MistralOnException(cands, msg) ==
    IF cands # <<>>
    THEN Decision(cands[1], MistralFoundPrefix \o cands[1].name \o MistralFoundSuffix)
    ELSE Decision(NoUser, MistralNoCandidatesError)

(***************************************************************************)
(* POST /api/discord/connect (routers/discord_commands.py find_connection) *)
(***************************************************************************)
\* 'No users found in the database'
HttpNoUsersDetail ==
    <<"N","o"," ","u","s","e","r","s"," ","f","o","u","n","d"," ","i","n"," ","t","h","e"," ","d",
    "a","t","a","b","a","s","e">>
\* 'Error finding best match, defaulting to '
HttpFallbackPrefix ==
    <<"E","r","r","o","r"," ","f","i","n","d","i","n","g"," ","b","e","s","t"," ","m","a","t","c",
    "h",","," ","d","e","f","a","u","l","t","i","n","g"," ","t","o"," ">>
\* '. Error: '
HttpFallbackMiddle ==
    <<"."," ","E","r","r","o","r",":"," ">>
\* "No users matching your specific requirements for '"
HttpNoMatchPrefix ==
    <<"N","o"," ","u","s","e","r","s"," ","m","a","t","c","h","i","n","g"," ","y","o","u","r"," ",
    "s","p","e","c","i","f","i","c"," ","r","e","q","u","i","r","e","m","e","n","t","s"," ","f","o",
    "r"," ","'">>
\* "' were found. "
HttpNoMatchMiddle ==
    <<"'"," ","w","e","r","e"," ","f","o","u","n","d","."," ">>

\* what a caller of find_best_match gave the requester
Outcome(kind, status, u, e, d) ==
    [kind |-> kind, status |-> status, user |-> u, explanation |-> e, detail |-> d]
NoOutcome == Outcome("none", 0, NoUser, <<>>, <<>>)

\* for i, candidate in enumerate(candidates): replace "Candidate {i+1}" by
\* candidate.name, one candidate after the other
RECURSIVE ReplaceRefsFrom(_, _, _)
ReplaceRefsFrom(t, cands, i) ==
    IF i > Len(cands) THEN t
    ELSE ReplaceRefsFrom(StrReplace(t, Marker(i), cands[i].name), cands, i + 1)
ReplaceRefs(t, cands) == ReplaceRefsFrom(t, cands, 1)

\* clean_explanation of find_connection
HttpCleanExplanation(best_match, explanation, cands) ==
    ReplaceMarkers(ReplaceRefs(explanation, cands), best_match.name)

\* variant: without the clause "except HTTPException: raise" the 404 of a
\* missing match reaches "except Exception" and becomes a 500
HttpResponseCatchAll(r, cands, req) ==
    IF r.raised
    THEN Outcome("match", 200, cands[1],
                 HttpFallbackPrefix \o cands[1].name \o HttpFallbackMiddle \o r.explanation,
                 <<>>)
    ELSE IF r.user = NoUser
    THEN Outcome("error", 500, NoUser, <<>>,
                 HttpNoMatchPrefix \o req \o HttpNoMatchMiddle \o r.explanation)
    ELSE Outcome("match", 200, r.user, HttpCleanExplanation(r.user, r.explanation, cands), <<>>)

\* find_connection after find_best_match: the fallback of its except clause,
\* the 404 of a missing match, or the match
HttpResponse(r, cands, req) ==
    IF r.raised
    THEN Outcome("match", 200, cands[1],
                 HttpFallbackPrefix \o cands[1].name \o HttpFallbackMiddle \o r.explanation,
                 <<>>)
    ELSE IF r.user = NoUser
    THEN Outcome("no_match", 404, NoUser, r.explanation,
                 HttpNoMatchPrefix \o req \o HttpNoMatchMiddle \o r.explanation)
    ELSE Outcome("match", 200, r.user, HttpCleanExplanation(r.user, r.explanation, cands), <<>>)

(***************************************************************************)
(* The /connect command of the bot (discord_bot.py                         *)
(* process_connection_request and send_connection_response)                *)
(***************************************************************************)
\* "Your specific requirements couldn't be matched with our current network."
BotDefaultNoMatchReason ==
    <<"Y","o","u","r"," ","s","p","e","c","i","f","i","c"," ","r","e","q","u","i","r","e","m","e",
    "n","t","s"," ","c","o","u","l","d","n","'","t"," ","b","e"," ","m","a","t","c","h","e","d"," ",
    "w","i","t","h"," ","o","u","r"," ","c","u","r","r","e","n","t"," ","n","e","t","w","o","r","k",
    ".">>
\* "This person's skills and experience may be relevant to your requirements."
BotDefaultExplanation ==
    <<"T","h","i","s"," ","p","e","r","s","o","n","'","s"," ","s","k","i","l","l","s"," ","a","n",
    "d"," ","e","x","p","e","r","i","e","n","c","e"," ","m","a","y"," ","b","e"," ","r","e","l","e",
    "v","a","n","t"," ","t","o"," ","y","o","u","r"," ","r","e","q","u","i","r","e","m","e","n","t",
    "s",".">>
\* '...'
Ellipsis ==
    <<".",".",".">>

\* the length the bot cuts an explanation to
MaxExplanation == 1500

\* variant: the text is cut from 1500 characters on, len(t) >= 1500
TruncateFromLimit(t) ==
    IF Len(t) >= MaxExplanation THEN SubSeq(t, 1, MaxExplanation) \o Ellipsis ELSE t

\* if len(t) > 1500: t = t[:1500] + "..."
Truncate(t) ==
    IF Len(t) > MaxExplanation THEN SubSeq(t, 1, MaxExplanation) \o Ellipsis ELSE t

\* [c for c in candidates if c.resume_text and len(c.resume_text.strip()) > 0]
RECURSIVE WithResumes(_)
WithResumes(us) ==
    IF us = <<>> THEN <<>>
    ELSE IF Len(Strip(Head(us).resume_text)) > 0
    THEN <<Head(us)>> \o WithResumes(Tail(us))
    ELSE WithResumes(Tail(us))

\* no_match_reason of process_connection_request; all_users is the whole table
\* variant: the explanation is used as it comes, without the default sentence
BotNoMatchSubstitutedAsGiven(explanation, all_users) ==
    ReplaceMarkers(RedactNames(RemoveStorageTerms(explanation), all_users), ACandidate)

\* no_match_reason before it is cut
BotNoMatchSubstituted(explanation, all_users) ==
    LET reason == IF explanation # <<>> THEN explanation ELSE BotDefaultNoMatchReason IN
    ReplaceMarkers(RedactNames(RemoveStorageTerms(reason), all_users), ACandidate)
BotNoMatchReason(explanation, all_users) ==
    Truncate(BotNoMatchSubstituted(explanation, all_users))

\* clean_explanation of send_connection_response; cands is the list that was
\* passed to find_best_match
BotCleanSubstituted(best_match, explanation, cands) ==
    LET clean == IF explanation # <<>> THEN explanation ELSE BotDefaultExplanation IN
    RemoveStorageTerms(ReplaceMarkers(ReplaceRefs(clean, cands), best_match.name))
BotCleanExplanation(best_match, explanation, cands) ==
    Truncate(BotCleanSubstituted(best_match, explanation, cands))

\* process_connection_request after find_best_match
BotResponse(r, all_users, cands) ==
    IF r.raised
    THEN Outcome("error", 0, NoUser, <<>>, <<>>)
    ELSE IF r.user # NoUser
    THEN Outcome("match", 0, r.user, BotCleanExplanation(r.user, r.explanation, cands), <<>>)
    ELSE Outcome("no_match", 0, NoUser, BotNoMatchReason(r.explanation, all_users), <<>>)

\* n characters that fill a long explanation
Pad(n) == [i \in 1..n |-> "x"]

\* how far the long explanations reach past the cut of the bot
MaxOver == 1

\* explanations around the cut: a fragment that ends at the cut or up to
\* MaxOver characters after it, followed by up to MaxOver more characters
LongTexts ==
    {Pad(MaxExplanation - Len(s) + d) \o s \o Pad(m) :
        s \in Concats(1), d \in 0..MaxOver, m \in 0..MaxOver}

\* an explanation whose words hold storage terms without being one
\* 'Their profile has records'
ExplProfile ==
    <<"T","h","e","i","r"," ","p","r","o","f","i","l","e"," ","h","a","s"," ","r","e","c","o","r",
    "d","s">>

\* what a find_best_match patched by a test gives its caller: any candidate
\* of the list or None with any explanation (the empty one included), or an
\* exception
MockExplanations == Responses \cup LongTexts \cup {ExplProfile}
\* 'Test error', or the timeout
MockErrors == {<<"T","e","s","t"," ","e","r","r","o","r">>, ErrTimeout}
MockResults(cands) ==
    {Decision(u, e) : u \in Range(cands) \cup {NoUser}, e \in MockExplanations}
        \cup {Raised(msg) : msg \in MockErrors}

\* the users tables the patched runs start from
MockTables == {SubSeq(Roster, 1, n) : n \in 1..MaxUsers}

(***************************************************************************)
(* The profiles and the resume dialogue of the bot                        *)
(***************************************************************************)
\* class User: the fields it declares.  Keyword arguments for other names are
\* dropped by the constructor and reading them raises AttributeError
DeclaredFields == {"id", "name", "phone", "resume_url", "resume_text"}


\* interaction.user.id, message.author.id: the Discord user of the model
Author == 7001

\* the ids of the users table are UUIDs, Discord ids are strings of digits:
\* user_id.isdigit() tells them apart
DiscordId(n) == [digits |-> TRUE, n |-> n]
Uuid(n) == [digits |-> FALSE, n |-> n]

\* the rows the users table may hold for the Discord user when the bot starts:
\* none, a profile without resume, a profile with a resume; resume names the
\* text that is stored
StoredProfiles ==
    {<<>>,
     <<[id |-> Uuid(1), discord_id |-> DiscordId(Author), has_resume |-> FALSE,
        resume |-> "none"]>>,
     <<[id |-> Uuid(1), discord_id |-> DiscordId(Author), has_resume |-> TRUE,
        resume |-> "stored"]>>}

\* valid_extensions
valid_extensions ==
    {<<".","p","d","f">>, <<".","d","o","c">>, <<".","d","o","c","x">>, <<".","t","x","t">>, <<".","r","t","f">>}

\* ["cancel", "stop", "quit", "exit"]
cancel_words ==
    {<<"c","a","n","c","e","l">>, <<"s","t","o","p">>, <<"q","u","i","t">>, <<"e","x","i","t">>}

\* the shortest extracted text that is accepted: len(resume_text.strip()) < 50
MinResumeChars == 50

\* the messages of the Discord user: in a DM or in a channel, with an
\* attachment 'cv.PDF' or 'cv.exe' or with the text 'Quit' or 'quit now'
Messages ==
    {[channel |-> d, ext |-> e, content |-> <<>>] :
        d \in {"dm", "guild"}, e \in {<<".","P","D","F">>, <<".","e","x","e">>}}
    \cup {[channel |-> d, ext |-> <<>>, content |-> c] :
        d \in {"dm", "guild"}, c \in {<<"Q","u","i","t">>, <<"q","u","i","t"," ","n","o","w">>}}

\* the most rows the users table holds in the runs that are checked
MaxProfiles == 2

\* the on_message coroutines that may be in flight at once
Handlers == {1, 2}

\* a coroutine slot that runs no handler
FreeHandler ==
    [pc |-> "free", msg |-> [channel |-> "guild", ext |-> <<>>, content |-> <<>>],
     user_id |-> Uuid(0), result |-> "none",
     saved |-> FALSE, removed |-> FALSE, next_upload |-> FALSE]

\* no slash command yet
NoCommand ==
    [name |-> "none", update_resume |-> FALSE, had |-> "none", result |-> "none",
     fresh |-> FALSE]

(***************************************************************************)
(* State                                                                   *)
(***************************************************************************)
VARIABLES
    pc,           \* "idle", "awaiting" (completion request in flight),
                  \* "returned" (find_best_match is back at its caller), "done"
    caller,       \* "direct", "http", "bot"
    service,      \* "openai", "mistral": the module find_best_match is taken from
    users,        \* the users table
    candidates,   \* the list passed to find_best_match
    looking_for,  \* the request text
    api_calls,    \* requests sent to the text-completion service
    api_result,   \* "none", "content", "null", "error"
    ai_text,      \* message.content as the service sent it, or str(e)
    ret,          \* what find_best_match gave its caller
    outcome,      \* what the caller gave the requester
    other,        \* another request of the same process: "none", "pending",
                  \* "served"
    model_fields, \* the fields objects of class User carry
    connection_requests,  \* users.connection_requests, by the id of the row
    profiles,     \* the rows of the users table that belong to Discord users
    waiting_for_resume,   \* the dictionary of discord_bot: Discord id -> row id
    handlers,     \* the on_message coroutines in flight
    command       \* the last slash command of the Discord user and its answer

\* the state of the bot's resume dialogue
sessionVars == <<model_fields, profiles, waiting_for_resume, handlers, command>>

\* the state of a connection request
matchVars ==
    <<pc, caller, service, users, candidates, looking_for, api_calls, api_result,
      ai_text, ret, outcome, other, connection_requests>>

vars == <<matchVars, sessionVars>>

Init ==
    /\ pc = "idle"
    /\ caller = "direct"
    /\ service = "openai"
    /\ users = <<>>
    /\ candidates = <<>>
    /\ looking_for = <<>>
    /\ api_calls = 0
    /\ api_result = "none"
    /\ ai_text = <<>>
    /\ ret = NoDecision
    /\ outcome = NoOutcome
    /\ other = "none"
    /\ model_fields = DeclaredFields
    /\ connection_requests = [i \in 1..Len(Roster) |-> <<>>]
    /\ profiles = <<>>
    /\ waiting_for_resume = [d \in {} |-> Uuid(0)]
    /\ handlers = [h \in Handlers |-> FreeHandler]
    /\ command = NoCommand

\* add_connection_request(user_id, requester_id) on the stored lists: the row
\* is read, the requester appended unless it is there, the row written back;
\* nothing is stored when the row is not found or an exception is caught
add_connection_request(stored, table, user_id, requester_id) ==
    IF \A k \in DOMAIN table : table[k].id # user_id
    THEN stored
    ELSE IF "connection_requests" \notin model_fields
    THEN stored
    ELSE [stored EXCEPT ![user_id] =
             IF \E k \in DOMAIN @ : @[k] = requester_id THEN @ ELSE Append(@, requester_id)]

\* find_best_match up to its completion request, or to its early return
Enter(cands) ==
    /\ candidates' = cands
    /\ IF ReturnsEarly(cands)
       THEN /\ pc' = "returned"
            /\ ret' = EarlyDecision(cands)
            /\ api_calls' = api_calls
       ELSE /\ pc' = "awaiting"
            /\ ret' = ret
            /\ api_calls' = api_calls + 1
    /\ UNCHANGED <<api_result, ai_text>>

\* find_best_match of either module called as a function, with any list
DirectCall ==
    /\ pc = "idle"
    /\ UNCHANGED <<other, connection_requests, sessionVars>>
    /\ \E svc \in {"openai", "mistral"}, t \in Tables, req \in RequestTexts :
        /\ caller' = "direct"
        /\ service' = svc
        /\ users' = t
        /\ looking_for' = req
        /\ Enter(t)
    /\ UNCHANGED outcome

\* POST /api/discord/connect: 404 when the table is empty, else find_best_match
\* of openai_service with every user
HttpConnect ==
    /\ pc = "idle"
    /\ UNCHANGED <<other, connection_requests, sessionVars>>
    /\ \E t \in Tables, req \in RequestTexts :
        /\ caller' = "http"
        /\ service' = "openai"
        /\ users' = t
        /\ looking_for' = req
        /\ IF t = <<>>
           THEN /\ pc' = "done"
                /\ outcome' = Outcome("no_users", 404, NoUser, <<>>, HttpNoUsersDetail)
                /\ UNCHANGED <<candidates, api_calls, api_result, ai_text, ret>>
           ELSE /\ Enter(t)
                /\ UNCHANGED outcome

\* /connect: a message when the table is empty or no user has a resume, else
\* find_best_match of openai_service with the users that have one
BotConnect ==
    /\ pc = "idle"
    /\ UNCHANGED <<other, connection_requests, sessionVars>>
    /\ \E t \in Tables, req \in RequestTexts :
        /\ caller' = "bot"
        /\ service' = "openai"
        /\ users' = t
        /\ looking_for' = req
        /\ IF t = <<>>
           THEN /\ pc' = "done"
                /\ outcome' = Outcome("no_users", 0, NoUser, <<>>, <<>>)
                /\ UNCHANGED <<candidates, api_calls, api_result, ai_text, ret>>
           ELSE IF WithResumes(t) = <<>>
           THEN /\ pc' = "done"
                /\ outcome' = Outcome("no_resumes", 0, NoUser, <<>>, <<>>)
                /\ UNCHANGED <<candidates, api_calls, api_result, ai_text, ret>>
           ELSE /\ Enter(WithResumes(t))
                /\ UNCHANGED outcome

\* the rest of the try block, by module
Parsed(svc, cands, resp) ==
    IF svc = "openai" THEN ParseResponse(cands, resp) ELSE MistralParseResponse(cands, resp)

\* the except clause, by module
Caught(svc, cands, msg) ==
    IF svc = "openai" THEN OnException(cands, msg) ELSE MistralOnException(cands, msg)

\* the completion arrives: message.content is a string, which is stripped
Complete ==
    /\ pc = "awaiting"
    /\ UNCHANGED <<other, connection_requests, sessionVars>>
    /\ \E text \in Responses :
        /\ api_result' = "content"
        /\ ai_text' = text
        /\ ret' = Parsed(service, candidates, Strip(text))
    /\ pc' = "returned"
    /\ UNCHANGED <<caller, service, users, candidates, looking_for, api_calls, outcome>>

\* the completion arrives with content None: .strip() raises AttributeError
CompleteNull ==
    /\ pc = "awaiting"
    /\ UNCHANGED <<other, connection_requests, sessionVars>>
    /\ api_result' = "null"
    /\ ai_text' = ErrNoneStrip
    /\ ret' = Caught(service, candidates, ErrNoneStrip)
    /\ pc' = "returned"
    /\ UNCHANGED <<caller, service, users, candidates, looking_for, api_calls, outcome>>

\* variant: after a failure the request is sent again, up to 3 times
FailAndRetry ==
    /\ pc = "awaiting"
    /\ UNCHANGED <<other, connection_requests, sessionVars>>
    /\ api_calls < 3
    /\ api_calls' = api_calls + 1
    /\ UNCHANGED <<pc, caller, service, users, candidates, looking_for, api_result,
                   ai_text, ret, outcome>>

\* the completion call raises: transport failure, timeout, non-success status
Fail ==
    /\ pc = "awaiting"
    /\ UNCHANGED <<other, connection_requests, sessionVars>>
    /\ \E msg \in ErrorMessages :
        /\ api_result' = "error"
        /\ ai_text' = msg
        /\ ret' = Caught(service, candidates, msg)
    /\ pc' = "returned"
    /\ UNCHANGED <<caller, service, users, candidates, looking_for, api_calls, outcome>>

\* find_connection answers
HttpRespond ==
    /\ pc = "returned"
    /\ UNCHANGED <<other, connection_requests, sessionVars>>
    /\ caller = "http"
    /\ outcome' = HttpResponse(ret, candidates, looking_for)
    /\ pc' = "done"
    /\ UNCHANGED <<caller, service, users, candidates, looking_for, api_calls,
                   api_result, ai_text, ret>>

\* process_connection_request answers
BotRespond ==
    /\ pc = "returned"
    /\ UNCHANGED <<other, sessionVars>>
    /\ connection_requests' =
           IF BotResponse(ret, users, candidates).kind = "match"
           THEN add_connection_request(connection_requests, users, ret.user.id, Author)
           ELSE connection_requests
    /\ caller = "bot"
    /\ outcome' = BotResponse(ret, users, candidates)
    /\ pc' = "done"
    /\ UNCHANGED <<caller, service, users, candidates, looking_for, api_calls,
                   api_result, ai_text, ret>>

\* POST /api/discord/connect with find_best_match patched, as the tests of
\* the endpoint run it
MockHttpConnect ==
    /\ pc = "idle"
    /\ UNCHANGED <<other, connection_requests, sessionVars>>
    /\ \E t \in MockTables : \E r \in MockResults(t) :
        /\ caller' = "http"
        /\ users' = t
        /\ candidates' = t
        /\ ret' = r
    /\ service' = "mock"
    /\ looking_for' = ReqCook
    /\ pc' = "returned"
    /\ UNCHANGED <<api_calls, api_result, ai_text, outcome>>

\* /connect with find_best_match patched
MockBotConnect ==
    /\ pc = "idle"
    /\ UNCHANGED <<other, connection_requests, sessionVars>>
    /\ \E t \in MockTables :
        /\ WithResumes(t) # <<>>
        /\ \E r \in MockResults(WithResumes(t)) :
            /\ caller' = "bot"
            /\ users' = t
            /\ candidates' = WithResumes(t)
            /\ ret' = r
    /\ service' = "mock"
    /\ looking_for' = ReqCook
    /\ pc' = "returned"
    /\ UNCHANGED <<api_calls, api_result, ai_text, outcome>>

Next ==
    \/ DirectCall
    \/ HttpConnect
    \/ BotConnect
    \/ Complete
    \/ CompleteNull
    \/ Fail
    \/ HttpRespond
    \/ BotRespond

Spec == Init /\ [][Next]_vars

\* the completion call is given a timeout: timeout=30.0 in mistral_service,
\* none in openai_service
HasTimeout(svc) == svc = "mistral"

\* the service takes the request and does not answer
Silent ==
    /\ pc = "awaiting"
    /\ UNCHANGED <<other, connection_requests, sessionVars>>
    /\ pc' = "silent"
    /\ UNCHANGED <<caller, service, users, candidates, looking_for, api_calls,
                   api_result, ai_text, ret, outcome>>

\* the timeout of the call ends the wait: the call raises, the except clause
\* returns
TimeoutFires ==
    /\ pc = "silent"
    /\ UNCHANGED <<other, connection_requests, sessionVars>>
    /\ HasTimeout(service)
    /\ api_result' = "error"
    /\ ai_text' = ErrTimeout
    /\ ret' = Caught(service, candidates, ErrTimeout)
    /\ pc' = "returned"
    /\ UNCHANGED <<caller, service, users, candidates, looking_for, api_calls, outcome>>

\* the program with a service that may stay silent; every step that stays
\* possible is taken in the end, the service's answer included unless it has
\* gone silent
WaitNext ==
    \/ Next
    \/ Silent
    \/ TimeoutFires

WaitSpec == Init /\ [][WaitNext]_vars /\ WF_vars(WaitNext)

\* the completion call is awaited (await client.post in mistral_service) or
\* not (client.chat.completions.create of the synchronous client in
\* openai_service, called without await inside the coroutine)
Awaited(svc) == svc = "mistral"

\* the event loop is held by a coroutine that is inside a call that is not
\* awaited
LoopHeld == pc = "awaiting" /\ ~Awaited(service)

\* another request arrives in the process: a /connect command, a message, an
\* HTTP request
OtherArrives ==
    /\ other = "none"
    /\ other' = "pending"
    /\ UNCHANGED <<pc, caller, service, users, candidates, looking_for, api_calls,
                   api_result, ai_text, ret, outcome, connection_requests>>
    /\ UNCHANGED sessionVars

\* the event loop runs the other request's handler
OtherProgress ==
    /\ other = "pending"
    /\ ~LoopHeld
    /\ other' = "served"
    /\ UNCHANGED <<pc, caller, service, users, candidates, looking_for, api_calls,
                   api_result, ai_text, ret, outcome, connection_requests>>
    /\ UNCHANGED sessionVars

\* the program with a second request in the same event loop
LoopNext ==
    \/ Next
    \/ OtherArrives
    \/ OtherProgress

LoopSpec == Init /\ [][LoopNext]_vars

\* the same program, and its two callers with find_best_match patched
MockNext ==
    \/ Next
    \/ MockHttpConnect
    \/ MockBotConnect

MockSpec == Init /\ [][MockNext]_vars

(***************************************************************************)
(* The resume dialogue: /register, /update and on_message.  The functions  *)
(* of database.py are coroutines that call the synchronous Supabase        *)
(* client: awaiting them never suspends, so a handler runs without         *)
(* interruption from one send or download to the next.  Every call of the  *)
(* database may fail (up is FALSE); the functions catch that.              *)
(***************************************************************************)
\* get_user(user_id): the position of the first row with that Discord id or
\* that id, 0 for None (no such row, or an exception was caught)
get_user(rows, user_id, up) ==
    LET found == {k \in DOMAIN rows :
                     IF user_id.digits THEN rows[k].discord_id = user_id
                     ELSE rows[k].id = user_id}
    IN IF ~up \/ found = {} THEN 0 ELSE CHOOSE k \in found : \A j \in found : k <= j

\* variant: the row is built from the fields User declares, has_resume and
\* connection_requests take the defaults of the table
create_user_declared(rows, discord_id, up) ==
    IF ~up
    THEN [rows |-> rows, user |-> 0]
    ELSE [rows |-> Append(rows, [id |-> Uuid(Len(rows) + 1), discord_id |-> discord_id,
                                 has_resume |-> FALSE, resume |-> "none"]),
          user |-> Len(rows) + 1]

\* create_user(user, discord_id): user_data reads user.has_resume and
\* user.connection_requests before the insert; [rows, user], user 0 for None
create_user(rows, discord_id, up) ==
    IF ~({"has_resume", "connection_requests"} \subseteq model_fields) \/ ~up
    THEN [rows |-> rows, user |-> 0]
    ELSE [rows |-> Append(rows, [id |-> Uuid(Len(rows) + 1), discord_id |-> discord_id,
                                 has_resume |-> FALSE, resume |-> "none"]),
          user |-> Len(rows) + 1]

\* update_user_resume(user_id, resume_url, resume_text): the row is looked up
\* and its resume replaced; [rows, ok], ok FALSE for None
update_user_resume(rows, user_id, text, up) ==
    LET k == get_user(rows, user_id, up) IN
    IF k = 0
    THEN [rows |-> rows, ok |-> FALSE]
    ELSE [rows |-> [rows EXCEPT ![k].resume = text, ![k].has_resume = TRUE], ok |-> TRUE]

\* what the table holds for the Discord user
Had ==
    IF \A k \in DOMAIN profiles : profiles[k].discord_id # DiscordId(Author) THEN "none"
    ELSE IF \E k \in DOMAIN profiles :
                profiles[k].discord_id = DiscordId(Author) /\ profiles[k].has_resume
    THEN "resume"
    ELSE "no_resume"

\* /register, process_registration_request: the profile is looked up by the
\* Discord id, created when there is none, and the user then waits for the
\* resume
Register ==
    /\ \E up1 \in BOOLEAN, up2 \in BOOLEAN :
        LET existing_user == get_user(profiles, DiscordId(Author), up1)
            created == create_user(profiles, DiscordId(Author), up2)
        IN
        /\ existing_user = 0 => Len(profiles) < MaxProfiles
        /\ IF existing_user # 0
           THEN /\ command' = [NoCommand EXCEPT !.name = "register", !.had = Had,
                                                !.result = "already_registered"]
                /\ UNCHANGED <<profiles, waiting_for_resume>>
           ELSE IF created.user = 0
           THEN /\ command' = [NoCommand EXCEPT !.name = "register", !.had = Had,
                                                !.result = "create_failed"]
                /\ UNCHANGED <<profiles, waiting_for_resume>>
           ELSE /\ profiles' = created.rows
                /\ waiting_for_resume' =
                       [d \in DOMAIN waiting_for_resume \cup {Author} |->
                           IF d = Author THEN created.rows[created.user].id
                           ELSE waiting_for_resume[d]]
                /\ command' = [NoCommand EXCEPT !.name = "register", !.had = Had,
                                                !.result = "registered"]
    /\ UNCHANGED <<matchVars, model_fields, handlers>>

\* /update, process_update_request with or without name or phone (fields)
\* and with or without update_resume
Update ==
    /\ \E fields \in BOOLEAN, update_resume \in BOOLEAN, up1 \in BOOLEAN, up2 \in BOOLEAN :
        LET user == get_user(profiles, DiscordId(Author), up1)
            answer(r) == [name |-> "update", update_resume |-> update_resume,
                          had |-> Had, result |-> r,
                          fresh |-> update_resume /\ Had = "resume" /\ user # 0]
        IN
        IF user = 0
        THEN /\ command' = answer("not_registered")
             /\ UNCHANGED waiting_for_resume
        ELSE IF update_resume
        THEN IF "has_resume" \notin model_fields
             THEN /\ command' = answer("unexpected_error")
                  /\ UNCHANGED waiting_for_resume
             ELSE /\ command' = answer("upload_requested")
                  /\ waiting_for_resume' =
                         [d \in DOMAIN waiting_for_resume \cup {Author} |->
                             IF d = Author THEN profiles[user].id
                             ELSE waiting_for_resume[d]]
        ELSE IF ~fields
        THEN /\ command' = answer("nothing_to_update")
             /\ UNCHANGED waiting_for_resume
        ELSE IF "has_resume" \notin model_fields
        THEN /\ command' = answer("unexpected_error")
             /\ UNCHANGED waiting_for_resume
        ELSE /\ command' = answer(IF up2 THEN "updated" ELSE "update_failed")
             /\ UNCHANGED waiting_for_resume
    /\ UNCHANGED <<matchVars, model_fields, profiles, handlers>>

\* variant: every channel counts as a DM
is_dm_anywhere(message) == TRUE

\* is_dm = isinstance(message.channel, discord.DMChannel)
is_dm(message) == message.channel = "dm"

\* on_message for a message of the Discord user, up to its first send or
\* download
OnMessage ==
    /\ \E h \in Handlers, m \in Messages, up \in BOOLEAN :
        LET is_upload == is_dm(m) /\ m.ext # <<>> /\ Lower(m.ext) \in valid_extensions
            started == [FreeHandler EXCEPT !.msg = m,
                                           !.next_upload = command.fresh /\ is_upload]
            ends(r) == [started EXCEPT !.pc = "done", !.result = r]
            user_id == waiting_for_resume[Author]
            user == get_user(profiles, user_id, up)
        IN
        /\ handlers[h].pc = "free"
        /\ command' = IF is_upload \/ (is_dm(m) /\ m.ext = <<>> /\ Lower(m.content) \in cancel_words)
                      THEN [command EXCEPT !.fresh = FALSE]
                      ELSE command
        /\ IF Author \notin DOMAIN waiting_for_resume
           THEN /\ handlers' = [handlers EXCEPT ![h] = ends("not_waiting")]
                /\ UNCHANGED waiting_for_resume
           ELSE IF ~is_dm(m) /\ m.ext # <<>>
           THEN /\ handlers' = [handlers EXCEPT ![h] = ends("redirected")]
                /\ UNCHANGED waiting_for_resume
           ELSE IF is_dm(m) /\ m.ext # <<>>
           THEN /\ UNCHANGED waiting_for_resume
                /\ IF ~is_upload
                   THEN handlers' = [handlers EXCEPT ![h] = ends("bad_extension")]
                   ELSE IF user # 0 /\ "has_resume" \notin model_fields
                   THEN handlers' = [handlers EXCEPT ![h] = ends("error")]
                   ELSE IF user # 0 /\ profiles[user].has_resume
                   THEN handlers' = [handlers EXCEPT ![h] =
                            [started EXCEPT !.pc = "replying", !.user_id = user_id]]
                   ELSE handlers' = [handlers EXCEPT ![h] =
                            [started EXCEPT !.pc = "saving", !.user_id = user_id]]
           ELSE IF is_dm(m)
           THEN IF Lower(m.content) \in cancel_words
                THEN /\ waiting_for_resume' =
                            [d \in DOMAIN waiting_for_resume \ {Author} |->
                                waiting_for_resume[d]]
                     /\ handlers' = [handlers EXCEPT ![h] =
                            [ends("cancelled") EXCEPT !.removed = TRUE]]
                ELSE /\ handlers' = [handlers EXCEPT ![h] = ends("prompted")]
                     /\ UNCHANGED waiting_for_resume
           ELSE /\ handlers' = [handlers EXCEPT ![h] = ends("ignored")]
                /\ UNCHANGED waiting_for_resume
    /\ UNCHANGED <<matchVars, model_fields, profiles>>

\* on_message after "You've already uploaded a resume" was sent (or the send
\* failed): the entry is deleted, KeyError when it is gone
ResumeAlreadyUploaded ==
    /\ \E h \in Handlers, sent \in BOOLEAN :
        /\ handlers[h].pc = "replying"
        /\ IF ~sent
           THEN /\ handlers' = [handlers EXCEPT ![h].pc = "done",
                                                ![h].result = "discord_error"]
                /\ UNCHANGED waiting_for_resume
           ELSE IF Author \notin DOMAIN waiting_for_resume
           THEN /\ handlers' = [handlers EXCEPT ![h].pc = "done", ![h].result = "error"]
                /\ UNCHANGED waiting_for_resume
           ELSE /\ handlers' = [handlers EXCEPT ![h].pc = "done",
                                                ![h].result = "already_uploaded",
                                                ![h].removed = TRUE]
                /\ waiting_for_resume' =
                       [d \in DOMAIN waiting_for_resume \ {Author} |-> waiting_for_resume[d]]
    /\ UNCHANGED <<matchVars, model_fields, profiles, command>>

\* variant: the answer of update_user_resume is not tested
UploadResultUnchecked(got, chars, ok, waiting) ==
    IF ~got THEN "discord_error"
    ELSE IF chars < MinResumeChars THEN "too_short"
    ELSE IF ~waiting THEN "error"
    ELSE "saved"

\* how on_message ends after attachment.save: the download failed, the
\* stripped text is shorter than 50 characters, update_user_resume returned
\* None, the entry to delete is gone (KeyError), or the resume is saved
UploadResult(got, chars, ok, waiting) ==
    IF ~got THEN "discord_error"
    ELSE IF chars < MinResumeChars THEN "too_short"
    ELSE IF ~ok THEN "save_failed"
    ELSE IF ~waiting THEN "error"
    ELSE "saved"

\* on_message after attachment.save: the text is extracted and tested, the
\* resume stored, the entry deleted
ResumeDownloaded ==
    /\ \E h \in Handlers, got \in BOOLEAN, up \in BOOLEAN,
          chars \in {MinResumeChars - 1, MinResumeChars} :
        LET updated == update_user_resume(profiles, handlers[h].user_id, "uploaded", up)
            r == UploadResult(got, chars, updated.ok, Author \in DOMAIN waiting_for_resume)
        IN
        /\ handlers[h].pc = "saving"
        /\ handlers' = [handlers EXCEPT ![h].pc = "done", ![h].result = r,
                                        ![h].saved = r \in {"saved", "error"},
                                        ![h].removed = (r = "saved")]
        /\ profiles' = IF r \in {"saved", "error"} THEN updated.rows ELSE profiles
        /\ waiting_for_resume' =
               IF r = "saved"
               THEN [d \in DOMAIN waiting_for_resume \ {Author} |-> waiting_for_resume[d]]
               ELSE waiting_for_resume
    /\ UNCHANGED <<matchVars, model_fields, command>>

\* on_message has returned
HandlerReturns ==
    /\ \E h \in Handlers :
        /\ handlers[h].pc = "done"
        /\ handlers' = [handlers EXCEPT ![h] = FreeHandler]
    /\ UNCHANGED <<matchVars, model_fields, profiles, waiting_for_resume, command>>

\* the bot with the class User of models/user.py
SessionInit ==
    /\ Init!1 /\ Init!2 /\ Init!3 /\ Init!4 /\ Init!5 /\ Init!6 /\ Init!7 /\ Init!8
    /\ Init!9 /\ Init!10 /\ Init!11 /\ Init!12 /\ Init!13 /\ Init!14
    /\ profiles \in StoredProfiles
    /\ waiting_for_resume = [d \in {} |-> Uuid(0)]
    /\ handlers = [h \in Handlers |-> FreeHandler]
    /\ command = NoCommand
SessionNext ==
    \/ Register
    \/ Update
    \/ OnMessage
    \/ HandlerReturns
SessionSpec == SessionInit /\ [][SessionNext]_vars

\* the same code with has_resume and connection_requests among the fields of
\* User, as database.py and discord_bot.py use the class: the dialogue that
\* follows a registration
FieldsInit ==
    /\ Init!1 /\ Init!2 /\ Init!3 /\ Init!4 /\ Init!5 /\ Init!6 /\ Init!7 /\ Init!8
    /\ Init!9 /\ Init!10 /\ Init!11 /\ Init!12 /\ Init!14
    /\ model_fields = DeclaredFields \cup {"has_resume", "connection_requests"}
    /\ profiles \in StoredProfiles
    /\ waiting_for_resume = [d \in {} |-> Uuid(0)]
    /\ handlers = [h \in Handlers |-> FreeHandler]
    /\ command = NoCommand
FieldsNext ==
    \/ SessionNext
    \/ ResumeAlreadyUploaded
    \/ ResumeDownloaded
FieldsSpec == FieldsInit /\ [][FieldsNext]_vars

(***************************************************************************)
(* Claims                                                                  *)
(***************************************************************************)
\* find_best_match has been called
Invoked ==
    \/ pc \in {"awaiting", "returned"}
    \/ pc = "done" /\ outcome.kind \notin {"no_users", "no_resumes"}

\* find_best_match has returned
Returned == Invoked /\ pc \in {"returned", "done"}

\* the stripped response the parsing works on
Response == Strip(ai_text)

\* the indices i for which the text "Candidate <i>" occurs in t, i a position of cands
ListedMarkers(cands, t) == {i \in 1..Len(cands) : Contains(t, Marker(i))}

\* t starts with p, t ends with p
HasPrefix(t, p) == StartsAt(t, 0, p)
HasSuffix(t, p) == Len(p) <= Len(t) /\ StartsAt(t, Len(t) - Len(p), p)

\* some candidate's name of more than 2 characters occurs in t as a whole word,
\* in any letter case
NamesSomeCandidate(t, cands) ==
    \E k \in DOMAIN cands :
        /\ Len(cands[k].name) > 2
        /\ \E i \in 0..(Len(t) - 1) : NameMatch(t, i, cands[k].name) > 0

\* C1: called with an empty candidate list, find_best_match (of either module,
\* for every request text) returns no user together with an explanation and
\* sends no request to the completion service.
C1_EmptyListReturnsNoneWithoutCall ==
    (Invoked /\ candidates = <<>>) =>
        /\ pc = "returned"
        /\ ~ret.raised
        /\ ret.user = NoUser
        /\ ret.explanation # <<>>
        /\ api_calls = 0
        /\ api_result = "none"

C1_Witness ==
    /\ Returned
    /\ candidates = <<>>
    /\ service = "mistral"
    /\ looking_for = ReqBeto

\* C2: called with exactly one candidate, find_best_match (of either module)
\* returns that candidate with an explanation and sends no request to the
\* completion service.
C2_SingleCandidateReturnedWithoutCall ==
    (Invoked /\ Len(candidates) = 1) =>
        /\ Returned
        /\ ~ret.raised
        /\ ret.user = candidates[1]
        /\ ret.explanation # <<>>
        /\ api_calls = 0
        /\ api_result = "none"

C2_Witness ==
    /\ Returned
    /\ caller = "bot"
    /\ Len(candidates) = 1
    /\ Len(users) = 2
    /\ ret.user = users[2]

\* C3: when the response contains "no good match found" in any letter case,
\* openai_service.find_best_match returns no user, also when the response
\* holds the marker of a listed candidate.
C3_NoMatchPhraseWinsOverMarker ==
    (Returned /\ service = "openai" /\ api_result = "content"
        /\ ContainsCI(Response, Indicator01)) =>
        (~ret.raised /\ ret.user = NoUser)

C3_Witness ==
    /\ Returned
    /\ service = "openai"
    /\ api_result = "content"
    /\ ContainsCI(Response, Indicator01)
    /\ ~Contains(Response, Indicator01)
    /\ ListedMarkers(candidates, Response) # {}
    /\ ret.user = NoUser

\* C4: when the response holds no no-match phrase and the marker
\* "Candidate <i>" of exactly one position i of the list, find_best_match
\* returns the candidate at that position.
C4_SingleMarkerSelectsItsCandidate ==
    (Returned /\ service = "openai" /\ api_result = "content"
        /\ ~NoMatchIndicated(Response)) =>
        \A i \in 1..Len(candidates) :
            ListedMarkers(candidates, Response) = {i} =>
                (~ret.raised /\ ret.user = candidates[i])

C4_Witness ==
    /\ Returned
    /\ caller = "bot"
    /\ api_result = "content"
    /\ ~NoMatchIndicated(Response)
    /\ ListedMarkers(candidates, Response) = {2}
    /\ ret.user = candidates[2]
    /\ ret.user # users[2]

\* the first whitespace-delimited token of the response is an integer in
\* 1..len(candidates)
FirstTokenIsIndex ==
    /\ IsDigitStr(FirstWord(Response))
    /\ ParseInt(FirstWord(Response)) \in 1..Len(candidates)

\* C5: when the completion succeeds and the response holds no no-match
\* phrase, no marker of a listed candidate and no leading integer in
\* 1..len(candidates), find_best_match returns no user, with an explanation;
\* it does not fall back to the first or any other candidate.
C5_UnparseableOutputIsNoMatch ==
    (Returned /\ service = "openai" /\ api_result = "content"
        /\ ~NoMatchIndicated(Response)
        /\ ListedMarkers(candidates, Response) = {}
        /\ ~FirstTokenIsIndex) =>
        (~ret.raised /\ ret.user = NoUser /\ ret.explanation # <<>>)

C5_Witness ==
    /\ Returned
    /\ service = "openai"
    /\ api_result = "content"
    /\ ai_text = FragZero \o FragBeto
    /\ ret.user = NoUser

\* C6: an exception of the completion call, or of reading its result, does
\* not leave find_best_match: the call returns no user and an explanation
\* that reports the failure and asks to try again.
C6_ExceptionBecomesNoMatch ==
    (Returned /\ service = "openai" /\ api_result \in {"error", "null"}) =>
        /\ ~ret.raised
        /\ ret.user = NoUser
        /\ HasPrefix(ret.explanation, ErrorPrefix)
        /\ HasSuffix(ret.explanation, ErrorSuffix)

C6_Witness ==
    /\ Returned
    /\ service = "openai"
    /\ api_result = "error"
    /\ ai_text = ErrTimeout
    /\ ret.user = NoUser

\* C7: no explanation of a no-match outcome (the one find_best_match returns,
\* the one in the bot's message, the one in the 404 detail) names a candidate
\* of the input list whose name has more than 2 characters, as a whole word
\* in any letter case.
C7_NoMatchNamesNoCandidate ==
    /\ (Returned /\ service = "openai" /\ ~ret.raised /\ ret.user = NoUser) =>
            ~NamesSomeCandidate(ret.explanation, candidates)
    /\ (pc = "done" /\ outcome.kind = "no_match") =>
            ~NamesSomeCandidate(outcome.explanation, candidates)

\* C8: no explanation of a no-match outcome holds a marker "Candidate <k>".
C8_NoMatchHoldsNoMarker ==
    /\ (Returned /\ service = "openai" /\ ~ret.raised /\ ret.user = NoUser) =>
            ~ReFound(ret.explanation, PatMarker)
    /\ (pc = "done" /\ outcome.kind = "no_match") =>
            ~ReFound(outcome.explanation, PatMarker)

\* C9: a user that find_best_match returns, or that the bot or the HTTP
\* endpoint reports as the match, is an element of the list that was passed
\* to find_best_match.
C9_MatchIsFromTheList ==
    /\ (Returned /\ ret.user # NoUser) => ret.user \in Range(candidates)
    /\ (pc = "done" /\ outcome.kind = "match") => outcome.user \in Range(candidates)

C9_Witness ==
    /\ pc = "done"
    /\ caller = "bot"
    /\ outcome.kind = "match"
    /\ api_result = "content"
    /\ Len(candidates) < Len(users)
    /\ outcome.user = candidates[1]

\* C10: when the response holds no no-match phrase and no marker of a listed
\* candidate and starts with an integer k, find_best_match returns
\* candidates[k-1] (0-based) with an explanation that holds that candidate's
\* name if 1 <= k <= len(candidates), and returns no user otherwise.
C10_BareIndexSelects ==
    (Returned /\ service = "openai" /\ api_result = "content"
        /\ ~NoMatchIndicated(Response)
        /\ ListedMarkers(candidates, Response) = {}
        /\ IsDigitStr(FirstWord(Response))) =>
        LET k == ParseInt(FirstWord(Response)) IN
        /\ ~ret.raised
        /\ IF k \in 1..Len(candidates)
           THEN /\ ret.user = candidates[k]
                /\ Contains(ret.explanation, candidates[k].name)
           ELSE ret.user = NoUser

C10_Witness ==
    /\ Returned
    /\ service = "openai"
    /\ api_result = "content"
    /\ ai_text = FragTwo \o FragBeto
    /\ ret.user = candidates[2]

\* C11: no explanation that find_best_match returns, on any of its paths,
\* holds one of the storage terms database, file, stored, record, system, in
\* any letter case.
C11_ExplanationHoldsNoStorageTerm ==
    (Returned /\ service = "openai" /\ ~ret.raised) =>
        ~ReFound(ret.explanation, PatStorageTerms)

\* C12: when a match is rendered by the bot or by the HTTP endpoint, every
\* marker "Candidate <k>" of the explanation is replaced by the selected
\* candidate's name: the rendered explanation holds no marker, and it holds
\* the name of no other candidate of the list unless find_best_match's
\* explanation held that name already.
C12_RenderedMarkersBecomeSelectedName ==
    (pc = "done" /\ outcome.kind = "match" /\ ~ret.raised) =>
        /\ ~ReFound(outcome.explanation, PatMarker)
        /\ \A k \in DOMAIN candidates :
              (candidates[k] # outcome.user
                  /\ Contains(outcome.explanation, candidates[k].name)) =>
                  Contains(ret.explanation, candidates[k].name)

\* C13: the sanitization of the bot is idempotent: applied to an explanation
\* it has produced, with the same decision and lists, it returns that
\* explanation.
C13_SanitizationIsIdempotent ==
    (pc = "done" /\ caller = "bot") =>
        /\ outcome.kind = "no_match" =>
              BotNoMatchReason(outcome.explanation, users) = outcome.explanation
        /\ outcome.kind = "match" =>
              BotCleanExplanation(outcome.user, outcome.explanation, candidates)
                  = outcome.explanation

\* the explanation of the bot's answer before it is cut
BotUncut ==
    IF outcome.kind = "match"
    THEN BotCleanSubstituted(ret.user, ret.explanation, candidates)
    ELSE BotNoMatchSubstituted(ret.explanation, users)

\* C14: the explanation the bot renders, for a match and for a no-match, is
\* the substituted text itself when that has at most 1500 characters, and
\* else its first 1500 characters followed by "..."; it never has more than
\* 1503 characters.
C14_ExplanationCutAt1500 ==
    (pc = "done" /\ caller = "bot" /\ outcome.kind \in {"match", "no_match"}) =>
        /\ Len(outcome.explanation) <= 1503
        /\ Len(BotUncut) <= 1500 => outcome.explanation = BotUncut
        /\ Len(BotUncut) > 1500 =>
              outcome.explanation = SubSeq(BotUncut, 1, 1500) \o <<".", ".", ".">>

C14_Witness ==
    /\ pc = "done"
    /\ caller = "bot"
    /\ outcome.kind = "match"
    /\ Len(ret.explanation) = 1500
    /\ Len(BotUncut) = 1503
    /\ Len(outcome.explanation) = 1503

C18_OtherRequestsProgress ==
    (pc = "awaiting" /\ other = "pending") => ENABLED OtherProgress

\* 'No users matching your specific requirements'
NoUsersMatching ==
    <<"N","o"," ","u","s","e","r","s"," ","m","a","t","c","h","i","n","g"," ","y","o","u","r"," ",
    "s","p","e","c","i","f","i","c"," ","r","e","q","u","i","r","e","m","e","n","t","s">>
\* 'Error finding best match'
ErrorFindingBestMatch ==
    <<"E","r","r","o","r"," ","f","i","n","d","i","n","g"," ","b","e","s","t"," ","m","a","t","c",
    "h">>
\* 'Please try again with more specific criteria'
TryAgainMoreSpecific ==
    <<"P","l","e","a","s","e"," ","t","r","y"," ","a","g","a","i","n"," ","w","i","t","h"," ","m",
    "o","r","e"," ","s","p","e","c","i","f","i","c"," ","c","r","i","t","e","r","i","a">>

\* C19: when find_best_match returns no candidate, POST /api/discord/connect
\* answers 404 with a detail that starts with "No users matching your
\* specific requirements" and ends with the explanation find_best_match
\* returned; the answer is not a 500.
C19_NoMatchIs404 ==
    (pc = "done" /\ caller = "http" /\ Invoked /\ ~ret.raised /\ ret.user = NoUser) =>
        /\ outcome.status = 404
        /\ outcome.user = NoUser
        /\ HasPrefix(outcome.detail, NoUsersMatching)
        /\ HasSuffix(outcome.detail, ret.explanation)

C19_Witness ==
    /\ pc = "done"
    /\ caller = "http"
    /\ service = "mock"
    /\ ret = Decision(NoUser, FragNoGoodMatch \o FragBeto)
    /\ outcome.status = 404

\* C20: when find_best_match raises and the candidate list is not empty, POST
\* /api/discord/connect answers 200 with the first candidate and an
\* explanation that holds "Error finding best match" and "Please try again
\* with more specific criteria".
C20_ErrorFallsBackToFirstCandidate ==
    (pc = "done" /\ caller = "http" /\ ret.raised /\ candidates # <<>>) =>
        /\ outcome.status = 200
        /\ outcome.user = candidates[1]
        /\ Contains(outcome.explanation, ErrorFindingBestMatch)
        /\ Contains(outcome.explanation, TryAgainMoreSpecific)

\* the number N of the leftmost "Candidate N is the best match because" of t
TemplateNumber(t) ==
    LET i == CHOOSE k \in 0..(Len(t) - 1) :
                 TemplateMatch(t, k) > 0 /\ \A h \in 0..(k - 1) : TemplateMatch(t, h) = 0
        d == DigitRun(t, i + Len(MarkerPrefix))
    IN ParseInt(SubSeq(t, i + Len(MarkerPrefix) + 1, i + Len(MarkerPrefix) + d))

\* C21: when the response holds no no-match phrase and the sentence
\* "Candidate N is the best match because <reason>" with N a position of the
\* list, find_best_match returns the candidate at position N and the
\* explanation "<name> is the best match because <reason>" with that
\* candidate's name, whatever other markers the response holds (reasons
\* without storage terms, which the vocabulary step would rewrite).
C21_TemplateSelectsItsCandidate ==
    (Returned /\ service = "openai" /\ api_result = "content"
        /\ ~NoMatchIndicated(Response)
        /\ TemplateSearch(Response).found
        /\ ~ReFound(TemplateSearch(Response).group1, PatStorageTerms)
        /\ TemplateNumber(Response) \in 1..Len(candidates)) =>
        LET c == candidates[TemplateNumber(Response)] IN
        ret = Decision(c, c.name \o BestMatchBecause \o TemplateSearch(Response).group1)

\* C22: when the response holds no no-match phrase and the markers of several
\* positions of the list, find_best_match returns the candidate of the lowest
\* of these positions, wherever the markers stand in the text.
C22_LowestListedMarkerWins ==
    (Returned /\ service = "openai" /\ api_result = "content"
        /\ ~NoMatchIndicated(Response)
        /\ Cardinality(ListedMarkers(candidates, Response)) >= 2) =>
        /\ ~ret.raised
        /\ \E i \in ListedMarkers(candidates, Response) :
            /\ ret.user = candidates[i]
            /\ \A h \in ListedMarkers(candidates, Response) : i <= h

C22_Witness ==
    /\ Returned
    /\ service = "openai"
    /\ Response = FragCandidate2Because \o FragCandidate1
    /\ Len(candidates) >= 2
    /\ ret.user = candidates[1]

\* the numbers N of the matches of Candidate \d+ in t
MarkerNumbers(t) ==
    {ParseInt(SubSeq(t, i + Len(MarkerPrefix) + 1, i + MarkerMatch(t, i))) :
        i \in {j \in 0..(Len(t) - 1) : MarkerMatch(t, j) > 0}}

\* C23: with ten or more candidates, a response without no-match phrase whose
\* only marker is "Candidate N", N of two digits and a position of the list,
\* selects the candidate at position N, not the one whose marker is a prefix
\* of "Candidate N".
C23_TwoDigitMarkerSelectsItsCandidate ==
    (Returned /\ service = "openai" /\ api_result = "content"
        /\ ~NoMatchIndicated(Response)) =>
        \A n \in 10..Len(candidates) :
            MarkerNumbers(Response) = {n} => ret.user = candidates[n]

\* C24: the vocabulary step leaves a text unchanged when none of the terms
\* database, file, stored, record, system is a whole word of it, also when a
\* longer word ("profile", "records") holds one of them.
C24_VocabularyStepReplacesWholeWords ==
    (pc = "done" /\ caller = "bot" /\ outcome.kind \in {"match", "no_match"}
        /\ ret.explanation = ExplProfile) =>
        outcome.explanation = ExplProfile

\* C29: whenever the bot has sent the name and the phone number of a matched
\* user, the Discord id of the requester is in the stored connection_requests
\* of that user exactly once
C29_SentContactIsRecordedOnce ==
    (pc = "done" /\ caller = "bot" /\ outcome.kind = "match") =>
        Cardinality({k \in DOMAIN connection_requests[outcome.user.id] :
                        connection_requests[outcome.user.id][k] = Author}) = 1

\* C30: a Discord user has at most one stored profile, and a /register of a
\* user who has a profile adds no row and does not make the user wait for a
\* resume; the lookup and the insert of one command run without suspension,
\* so two commands cannot interleave between them
C30_AtMostOneProfile ==
    /\ [](Cardinality({k \in DOMAIN profiles :
                          profiles[k].discord_id = DiscordId(Author)}) <= 1)
    /\ [][(Register /\ Had # "none") =>
              /\ profiles' = profiles
              /\ waiting_for_resume' = waiting_for_resume]_vars
C30_Witness ==
    /\ command.name = "register"
    /\ command.result = "already_registered"
    /\ Len(profiles) = 1
    /\ Author \notin DOMAIN waiting_for_resume

\* C25: after /update with update_resume=true by a registered user that has
\* a resume, the next DM attachment of that user with a valid extension is
\* saved in place of the stored resume and ends the waiting, unless the
\* download, the extracted text or the write fails
C25_UpdateThenUploadReplacesResume ==
    \A h \in Handlers :
        (handlers[h].pc = "done" /\ handlers[h].next_upload) =>
            /\ handlers[h].result \in {"saved", "discord_error", "too_short", "save_failed"}
            /\ handlers[h].result = "saved" => handlers[h].removed

====
